---- MODULE Spec2Model ----
(***************************************************************************)
(* System monitor (src/src/main.rs): the Task state machine driven by the  *)
(* iced runtime (Task::new, update, view), the snapshot built from the     *)
(* sysinfo provider on every Refresh, and the log writer `file` appending  *)
(* one record per Refresh to system_info.txt.                              *)
(*                                                                         *)
(* Abstractions, all on data and none on control flow:                     *)
(*  - u64 is scaled to 16 bits (U64Mod): the model checker's integers are  *)
(*    32-bit, and the only place the width shows is the subtraction of     *)
(*    main.rs:75;                                                          *)
(*  - an f64 is NaN, +inf or a non-negative rational n/d (the program only *)
(*    divides and multiplies non-negative numbers); conversions from u64   *)
(*    and the arithmetic are exact, which they are for values < 2^53;      *)
(*  - a formatted string is kept as the structure of its fields, each      *)
(*    number rendered by the operator of its format specifier;             *)
(*  - the bytes a failed write_all has already written are kept as one     *)
(*    "torn" chunk standing for any non-empty strict prefix of the data.   *)
(***************************************************************************)
EXTENDS Integers, Sequences, FiniteSets, TLC

VARIABLES
    pc,               \* "new": inside Task::new before update; "run": event loop; "panicked"
    overflow_checks,  \* build profile: TRUE = debug (overflow panics), FALSE = release (wraps)
    task,             \* the Task value: Loading or Loaded{information, show_cpu_usage}
    sys,              \* <<>> or <<s>>: the provider output of the latest System::new_all()
    nsamples,         \* number of provider samplings so far
    disk_file,        \* content of system_info.txt: sequence of chunks
    stdout,           \* number of "Error writing to file" lines printed (println! succeeds)
    result,           \* "None" | "Ok" | "Err": what the latest call of file() returned
    ok_writes,        \* number of file() calls that returned Ok
    frame,            \* <<>> or <<f>>: what the latest view() rendered
    last_message      \* "None" | "Refresh" | "CpuUsage": the latest message update() handled

vars == <<pc, overflow_checks, task, sys, nsamples, disk_file, stdout, result,
          ok_writes, frame, last_message>>

(* ------------------------------ bounds --------------------------------- *)
\* Refresh presses after construction (the eager Refresh of new() is extra).
MaxRefresh == 1
\* Memory and swap counters range over 0..MaxBytes in the log-writer harness.
MaxBytes == 2

(* ---------------------------- number model ----------------------------- *)
U64Mod == 2^16

MemDiv == 1048576
DiskDiv == 1073741824
NetDiv == 1024

NaN == [k |-> "nan", n |-> 0, d |-> 1]
Inf == [k |-> "inf", n |-> 0, d |-> 1]
Fin(n, d) == [k |-> "fin", n |-> n, d |-> d]

\* `x as f64`
AsF64(x) == Fin(x, 1)

\* A division that guards the zero divisor and yields 0.
FDivGuarded(a, b) ==
    IF a.k = "nan" \/ b.k = "nan" THEN NaN
    ELSE IF b.k = "inf" THEN (IF a.k = "inf" THEN NaN ELSE Fin(0, 1))
    ELSE IF a.k = "inf" THEN Inf
    ELSE IF b.n = 0 THEN Fin(0, 1)
    ELSE Fin(a.n * b.d, a.d * b.n)

\* IEEE-754 division of non-negative operands: 0/0 = NaN, x/0 = +inf for x > 0.
FDiv(a, b) ==
    IF a.k = "nan" \/ b.k = "nan" THEN NaN
    ELSE IF b.k = "inf" THEN (IF a.k = "inf" THEN NaN ELSE Fin(0, 1))
    ELSE IF a.k = "inf" THEN Inf
    ELSE IF b.n = 0 THEN (IF a.n = 0 THEN NaN ELSE Inf)
    ELSE Fin(a.n * b.d, a.d * b.n)

\* IEEE-754 multiplication of non-negative operands: inf * 0 = NaN.
FMul(a, b) ==
    IF a.k = "nan" \/ b.k = "nan" THEN NaN
    ELSE IF a.k = "inf" THEN (IF b.k = "fin" /\ b.n = 0 THEN NaN ELSE Inf)
    ELSE IF b.k = "inf" THEN (IF a.n = 0 THEN NaN ELSE Inf)
    ELSE Fin(a.n * b.n, a.d * b.d)

\* n/d rounded to the nearest integer, ties to even (no property below rests on
\* how a tie is broken).
RoundHalfEven(n, d) ==
    LET q == n \div d
        r == n % d
    IN  IF 2 * r > d \/ (2 * r = d /\ q % 2 = 1) THEN q + 1 ELSE q

\* "{:.2}" of a float: "NaN", "inf", or the value in hundredths.
Fmt2(x) ==
    IF x.k = "nan" THEN [s |-> "NaN", h |-> 0]
    ELSE IF x.k = "inf" THEN [s |-> "inf", h |-> 0]
    ELSE [s |-> "fixed", h |-> RoundHalfEven(100 * x.n, x.d)]

\* "{:02}" of an hour or a minute: at least two digits, zero padded.
Pad2(n) == <<n \div 10, n % 10>>

(* ------------------------------ strings -------------------------------- *)
\* An OsStr is a sequence of units; "\\xFF" stands for a unit that is not UTF-8.
InvalidUnit == "\\xFF"
ReplacementChar == "U+FFFD"

\* OsStr::to_string_lossy().into_owned()
ToStringLossy(os) ==
    [i \in DOMAIN os |-> IF os[i] = InvalidUnit THEN ReplacementChar ELSE os[i]]

(* --------------------------- Metrics Provider -------------------------- *)
F32(n) == Fin(n, 1)

Disk(name, total, available) ==
    [name |-> name, total_space |-> total, available_space |-> available]

Net(name, received, transmitted) ==
    [name |-> name, received |-> received, transmitted |-> transmitted]

\* What System::new_all() + refresh_all() may report. networks is the order in
\* which the iteration of sys.networks() yields the interfaces.
ProviderOutputs ==
    { [cpus |-> <<F32(10), F32(20)>>,
       used_memory |-> 512, total_memory |-> 1024, used_swap |-> 0, total_swap |-> 0,
       disks |-> <<Disk(<<"sda">>, 4096, 2048)>>,
       networks |-> <<Net("eth0", 2048, 4096)>>],
      [cpus |-> <<>>,
       used_memory |-> 0, total_memory |-> 0, used_swap |-> 1, total_swap |-> 0,
       disks |-> <<>>,
       networks |-> <<>>],
      [cpus |-> <<F32(10), F32(20)>>,
       used_memory |-> 512, total_memory |-> 1024, used_swap |-> 1, total_swap |-> 3,
       disks |-> <<Disk(<<"sda">>, 4096, 2048), Disk(<<"sd", InvalidUnit>>, 3, 1)>>,
       networks |-> <<Net("eth0", 2048, 4096), Net("lo", 1023, 1024)>>],
      [cpus |-> <<F32(20), F32(10)>>,
       used_memory |-> 512, total_memory |-> 1024, used_swap |-> 1, total_swap |-> 3,
       disks |-> <<Disk(<<"sd", InvalidUnit>>, 3, 1), Disk(<<"sda">>, 4096, 2048)>>,
       networks |-> <<Net("lo", 1023, 1024), Net("eth0", 2048, 4096)>>],
      [cpus |-> <<F32(10)>>,
       used_memory |-> 512, total_memory |-> 1024, used_swap |-> 0, total_swap |-> 0,
       disks |-> <<Disk(<<"sda">>, 0, 1)>>,
       networks |-> <<Net("eth0", 2048, 4096)>>] }

\* Local::now(): the wall clock at the moment of the write.
Clock == { [hour |-> 9, minute |-> 5], [hour |-> 23, minute |-> 59] }

\* How the open and the write_all of one call of file() end. torn: a failed
\* write_all had already written part of the data.
IoOutcomes ==
    { [open |-> FALSE, write |-> FALSE, torn |-> FALSE],
      [open |-> TRUE, write |-> FALSE, torn |-> FALSE],
      [open |-> TRUE, write |-> FALSE, torn |-> TRUE],
      [open |-> TRUE, write |-> TRUE, torn |-> FALSE] }

(* --------------------------- Snapshot Builder -------------------------- *)
\* disk.total_space() - disk.available_space() on u64: with overflow checks the
\* subtraction panics when it would go below zero, without them it wraps.
SubU64(a, b, checks) ==
    IF a >= b THEN [panic |-> FALSE, v |-> a - b]
    ELSE IF checks THEN [panic |-> TRUE, v |-> 0]
    ELSE [panic |-> FALSE, v |-> a - b + U64Mod]

\* The SystemInformation literal of update(); panic: some subtraction panicked.
BuildInformation(s, checks) ==
    LET used(i) == SubU64(s.disks[i].total_space, s.disks[i].available_space, checks)
    IN  [panic |-> \E i \in DOMAIN s.disks : used(i).panic,
         information |->
            [cpu_usages |-> s.cpus,
             used_memory |-> s.used_memory,
             total_memory |-> s.total_memory,
             used_swap |-> s.used_swap,
             total_swap |-> s.total_swap,
             disks |-> [i \in DOMAIN s.disks |->
                          <<ToStringLossy(s.disks[i].name),
                            s.disks[i].total_space,
                            used(i).v>>],
             networks |-> [i \in DOMAIN s.networks |->
                          <<s.networks[i].name,
                            s.networks[i].received,
                            s.networks[i].transmitted>>]]]

(* ------------------------------ Log Writer ----------------------------- *)
Percentage(used, total) == FMul(FDiv(AsF64(used), AsF64(total)), Fin(100, 1))

\* The text `data` of file(), field by field; a ", "-joined list is kept as the
\* sequence of its items.
Data(information, now) ==
    [time |-> <<Pad2(now.hour), Pad2(now.minute)>>,
     memory |-> [used |-> Fmt2(FDiv(AsF64(information.used_memory), Fin(MemDiv, 1))),
                 total |-> Fmt2(FDiv(AsF64(information.total_memory), Fin(MemDiv, 1))),
                 percent |-> Fmt2(Percentage(information.used_memory,
                                             information.total_memory))],
     swap |-> [used |-> Fmt2(FDiv(AsF64(information.used_swap), Fin(MemDiv, 1))),
               total |-> Fmt2(FDiv(AsF64(information.total_swap), Fin(MemDiv, 1))),
               percent |-> Fmt2(Percentage(information.used_swap,
                                           information.total_swap))],
     cpu_usage |-> [i \in DOMAIN information.cpu_usages |->
                      [cpu |-> i, percent |-> Fmt2(information.cpu_usages[i])]],
     disk_usage |-> [i \in DOMAIN information.disks |->
                      LET d == information.disks[i]
                      IN  [name |-> d[1],
                           used |-> Fmt2(FDiv(AsF64(d[3]), Fin(DiskDiv, 1))),
                           total |-> Fmt2(FDiv(AsF64(d[2]), Fin(DiskDiv, 1))),
                           percent |-> Fmt2(Percentage(d[3], d[2]))]],
     network_usage |-> [i \in DOMAIN information.networks |->
                      LET n == information.networks[i]
                      IN  [name |-> n[1],
                           received |-> n[2] \div NetDiv,
                           transmitted |-> n[3] \div NetDiv]]]

\* A log writer that opens with truncate instead of append.
fileTruncating(content, information, now, io) ==
    IF ~io.open THEN [ret |-> "Err", content |-> content]
    ELSE IF io.write
         THEN [ret |-> "Ok",
               content |-> <<[text |-> Data(information, now), torn |-> FALSE]>>]
         ELSE [ret |-> "Err",
               content |-> IF io.torn
                           THEN <<[text |-> Data(information, now), torn |-> TRUE]>>
                           ELSE <<>>]

\* file(path, information) on a log holding `content`: the Result it returns and
\* the content it leaves.
file(content, information, now, io) ==
    IF ~io.open THEN [ret |-> "Err", content |-> content]
    ELSE IF io.write
         THEN [ret |-> "Ok",
               content |-> Append(content, [text |-> Data(information, now), torn |-> FALSE])]
         ELSE [ret |-> "Err",
               content |-> IF io.torn
                           THEN Append(content,
                                       [text |-> Data(information, now), torn |-> TRUE])
                           ELSE content]

(* ------------------------ Application State Machine ------------------- *)
Loading == [tag |-> "Loading"]
Loaded(information, show) ==
    [tag |-> "Loaded", information |-> information, show_cpu_usage |-> show]

\* A Refresh that returns early when file() fails, leaving the Task as it was.
UpdateRefreshEarlyReturn(self, content, s, now, io, checks) ==
    LET b == BuildInformation(s, checks)
        f == file(content, b.information, now, io)
    IN  IF b.panic
        THEN [panic |-> TRUE, task |-> self, content |-> content,
              printed |-> 0, ret |-> "None"]
        ELSE IF f.ret = "Err"
        THEN [panic |-> FALSE, task |-> self, content |-> f.content,
              printed |-> 1, ret |-> f.ret]
        ELSE [panic |-> FALSE, task |-> Loaded(b.information, FALSE),
              content |-> f.content, printed |-> 0, ret |-> f.ret]

\* A Refresh that pushes the new disks and networks onto those of the old snapshot.
UpdateRefreshLeaky(self, content, s, now, io, checks) ==
    LET b == BuildInformation(s, checks)
        i == IF self.tag = "Loaded"
             THEN [b.information EXCEPT
                     !.disks = self.information.disks \o @,
                     !.networks = self.information.networks \o @]
             ELSE b.information
        f == file(content, i, now, io)
    IN  IF b.panic
        THEN [panic |-> TRUE, task |-> self, content |-> content,
              printed |-> 0, ret |-> "None"]
        ELSE [panic |-> FALSE, task |-> Loaded(i, FALSE),
              content |-> f.content,
              printed |-> IF f.ret = "Err" THEN 1 ELSE 0, ret |-> f.ret]

\* update(Message::Refresh) on `self` with the log holding `content`: the new
\* Task, the log, the lines printed, what file() returned, and whether the
\* handler panicked (before file() is reached, so nothing else has changed).
UpdateRefresh(self, content, s, now, io, checks) ==
    LET b == BuildInformation(s, checks)
        f == file(content, b.information, now, io)
    IN  IF b.panic
        THEN [panic |-> TRUE, task |-> self, content |-> content,
              printed |-> 0, ret |-> "None"]
        ELSE [panic |-> FALSE, task |-> Loaded(b.information, FALSE),
              content |-> f.content,
              printed |-> IF f.ret = "Err" THEN 1 ELSE 0, ret |-> f.ret]

\* A toggle that switches the CPU rows on instead of flipping them.
UpdateCpuUsageSet(self) ==
    IF self.tag = "Loaded"
    THEN Loaded(self.information, TRUE)
    ELSE self

\* A toggle that also drops the per-core samples of the snapshot.
UpdateCpuUsageClear(self) ==
    IF self.tag = "Loaded"
    THEN Loaded([self.information EXCEPT !.cpu_usages = <<>>], ~self.show_cpu_usage)
    ELSE self

\* A toggle that turns Loading into a Loaded state with an empty snapshot.
UpdateCpuUsageLoads(self) ==
    IF self.tag = "Loaded"
    THEN Loaded(self.information, ~self.show_cpu_usage)
    ELSE Loaded([cpu_usages |-> <<>>, used_memory |-> 0, total_memory |-> 0,
                 used_swap |-> 0, total_swap |-> 0, disks |-> <<>>,
                 networks |-> <<>>], TRUE)

\* update(Message::CpuUsage)
UpdateCpuUsage(self) ==
    IF self.tag = "Loaded"
    THEN Loaded(self.information, ~self.show_cpu_usage)
    ELSE self

\* view(): the branch taken and the number of per-core rows pushed, the only
\* part of the column that show_cpu_usage decides; the memory, swap, disk and
\* network rows are a function of the snapshot alone and are left out.
View(self) ==
    IF self.tag = "Loading"
    THEN [content |-> "Loading...", cpu_rows |-> 0]
    ELSE [content |-> "System Monitor",
          cpu_rows |-> IF self.show_cpu_usage
                       THEN Len(self.information.cpu_usages) ELSE 0]

(* ------------------------------- actions ------------------------------- *)
\* The state change of one call of update(Message::Refresh).
DoRefresh(s, now, io) ==
    LET u == UpdateRefresh(task, disk_file, s, now, io, overflow_checks)
    IN  /\ sys' = <<s>>
        /\ nsamples' = nsamples + 1
        /\ task' = u.task
        /\ disk_file' = u.content
        /\ stdout' = stdout + u.printed
        /\ result' = IF u.panic THEN result ELSE u.ret
        /\ ok_writes' = IF u.ret = "Ok" THEN ok_writes + 1 ELSE ok_writes
        /\ pc' = IF u.panic THEN "panicked" ELSE "run"
        /\ last_message' = "Refresh"
        /\ UNCHANGED <<overflow_checks, frame>>

\* A constructor without the eager Refresh.
NewLazy ==
    /\ pc = "new"
    /\ pc' = "run"
    /\ UNCHANGED <<overflow_checks, task, sys, nsamples, disk_file, stdout, result,
                   ok_writes, frame, last_message>>

\* Task::new(): Task::Loading, then update(Message::Refresh).
New ==
    /\ pc = "new"
    /\ \E s \in ProviderOutputs, now \in Clock, io \in IoOutcomes : DoRefresh(s, now, io)

\* The Refresh button delivers Message::Refresh.
Refresh ==
    /\ pc = "run"
    /\ nsamples <= MaxRefresh
    /\ \E s \in ProviderOutputs, now \in Clock, io \in IoOutcomes : DoRefresh(s, now, io)

\* The CPU Usage button delivers Message::CpuUsage.
CpuUsage ==
    /\ pc = "run"
    /\ task' = UpdateCpuUsage(task)
    /\ last_message' = "CpuUsage"
    /\ UNCHANGED <<pc, overflow_checks, sys, nsamples, disk_file, stdout, result,
                   ok_writes, frame>>

\* The runtime renders the current state.
Render ==
    /\ pc = "run"
    /\ frame' = <<View(task)>>
    /\ UNCHANGED <<pc, overflow_checks, task, sys, nsamples, disk_file, stdout,
                   result, ok_writes, last_message>>

\* The program as main() runs it: Task::run constructs the Task with new().
Init ==
    /\ pc = "new"
    /\ overflow_checks \in BOOLEAN
    /\ task = Loading
    /\ sys = <<>>
    /\ nsamples = 0
    /\ disk_file = <<>>
    /\ stdout = 0
    /\ result = "None"
    /\ ok_writes = 0
    /\ frame = <<>>
    /\ last_message = "None"

Next == New \/ Refresh \/ CpuUsage \/ Render

Spec == Init /\ [][Next]_vars

\* The transition function on its own: a Task::default() that receives messages
\* without the eager Refresh of new().
InitDefault ==
    /\ pc = "run"
    /\ overflow_checks \in BOOLEAN
    /\ task = Loading
    /\ sys = <<>>
    /\ nsamples = 0
    /\ disk_file = <<>>
    /\ stdout = 0
    /\ result = "None"
    /\ ok_writes = 0
    /\ frame = <<>>
    /\ last_message = "None"

NextDefault == Refresh \/ CpuUsage \/ Render

SpecDefault == InitDefault /\ [][NextDefault]_vars

\* The log writer on its own: file() applied once to a SystemInformation.
SystemInformations ==
    [cpu_usages : {<<>>, <<F32(10), F32(20)>>},
     used_memory : 0..MaxBytes, total_memory : 0..MaxBytes,
     used_swap : 0..MaxBytes, total_swap : 0..MaxBytes,
     disks : {<<>>, << <<<<"sda">>, 0, 0>> >>, << <<<<"sda">>, 3, 2>> >>},
     networks : {<<>>, << <<"eth0", 2048, 4096>> >>}]

InitFile ==
    /\ pc = "file"
    /\ overflow_checks \in BOOLEAN
    /\ task \in {Loaded(i, FALSE) : i \in SystemInformations}
    /\ sys = <<>>
    /\ nsamples = 0
    /\ disk_file = <<>>
    /\ stdout = 0
    /\ result = "None"
    /\ ok_writes = 0
    /\ frame = <<>>
    /\ last_message = "None"

CallFile ==
    /\ pc = "file"
    /\ \E now \in Clock, io \in IoOutcomes :
          LET f == file(disk_file, task.information, now, io)
          IN  /\ disk_file' = f.content
              /\ result' = f.ret
              /\ ok_writes' = IF f.ret = "Ok" THEN ok_writes + 1 ELSE ok_writes
    /\ pc' = "filed"
    /\ UNCHANGED <<overflow_checks, task, sys, nsamples, stdout, frame, last_message>>

NextFile == CallFile

SpecFile == InitFile /\ [][NextFile]_vars

(* ------------------------------ properties ----------------------------- *)
IsPrefix(a, b) == Len(a) <= Len(b) /\ SubSeq(b, 1, Len(a)) = a

Complete(chunk) == ~chunk.torn

\* The complete records of a log, in file order.
Records(content) == SelectSeq(content, Complete)

\* The name a provider string is stored under: every valid unit kept in place.
SameName(os, str) ==
    /\ Len(str) = Len(os)
    /\ \A j \in DOMAIN os : os[j] # InvalidUnit => str[j] = os[j]

\* `information` holds what the provider output `s` reported and nothing else.
FromProvider(information, s) ==
    /\ information.cpu_usages = s.cpus
    /\ information.used_memory = s.used_memory
    /\ information.total_memory = s.total_memory
    /\ information.used_swap = s.used_swap
    /\ information.total_swap = s.total_swap
    /\ Len(information.disks) = Len(s.disks)
    /\ \A i \in DOMAIN s.disks :
          /\ SameName(s.disks[i].name, information.disks[i][1])
          /\ information.disks[i][2] = s.disks[i].total_space
          /\ (information.disks[i][3] + s.disks[i].available_space) % U64Mod
                = s.disks[i].total_space
    /\ Len(information.networks) = Len(s.networks)
    /\ \A i \in DOMAIN s.networks :
          information.networks[i]
            = <<s.networks[i].name, s.networks[i].received, s.networks[i].transmitted>>

\* A step in which update(Message::Refresh) sampled the provider.
Sampled == nsamples' = nsamples + 1

\* C1: a Refresh applied in any state (Loading, Loaded with the CPU rows off or
\* on) ends in Loaded with the snapshot built from this sample and
\* show_cpu_usage = false.
C1_RefreshEndsLoaded ==
    [][Sampled =>
          /\ pc' = "run"
          /\ task'.tag = "Loaded"
          /\ task'.show_cpu_usage = FALSE
          /\ FromProvider(task'.information, sys'[1])]_vars

\* C2: a Refresh whose file() fails (open or write) still completes: the
\* process keeps running and the state is Loaded with the snapshot of this
\* sample and show_cpu_usage = false.
C2_LogFailureNonFatal ==
    [][stdout' # stdout =>
          /\ Sampled
          /\ result' = "Err"
          /\ pc' = "run"
          /\ task'.tag = "Loaded"
          /\ task'.show_cpu_usage = FALSE
          /\ FromProvider(task'.information, sys'[1])]_vars

\* A failed write_all left a torn chunk in the log, and the state nevertheless
\* holds the snapshot of the second sample.
C2_Witness ==
    /\ pc = "run"
    /\ nsamples = 2
    /\ stdout = 1
    /\ result = "Err"
    /\ ok_writes = 1
    /\ Len(disk_file) = 2
    /\ disk_file[2].torn
    /\ task.tag = "Loaded"
    /\ task.information.disks = <<>>

\* C3: the log is append-only: every step keeps the old content as a prefix of
\* the new one; a Refresh whose write succeeds adds exactly one record, the
\* record of its snapshot, after all earlier ones, every other step adds none;
\* so the number of records is the number of successful writes.
C3_AppendOnly ==
    /\ [](Len(Records(disk_file)) = ok_writes)
    /\ [][/\ IsPrefix(disk_file, disk_file')
          /\ ok_writes' # ok_writes =>
                /\ Sampled
                /\ ok_writes' = ok_writes + 1
                /\ \E now \in Clock :
                      Records(disk_file')
                        = Append(Records(disk_file),
                                 [text |-> Data(task'.information, now), torn |-> FALSE])
          /\ ok_writes' = ok_writes => Records(disk_file') = Records(disk_file)]_vars

\* Two records of different snapshots in the log, and a toggle after them.
C3_Witness ==
    /\ ok_writes = 2
    /\ Len(Records(disk_file)) = 2
    /\ Records(disk_file)[1].text # Records(disk_file)[2].text
    /\ nsamples = 2
    /\ last_message = "CpuUsage"

\* C4: building the snapshot never fails: no Refresh panics, and every stored
\* used_space is total_space - available_space in u64 arithmetic.
C4_BuildNeverFails ==
    /\ pc # "panicked"
    /\ pc = "run" /\ task.tag = "Loaded" => FromProvider(task.information, sys[1])

\* The record file() has just written for the SystemInformation it was given.
LastRecord == disk_file[Len(disk_file)].text

\* C5 as stated: for every snapshot with total_memory = 0, whatever
\* used_memory is, the written record renders the memory percentage as
\* not-a-number; the same for swap with total_swap = 0.
C5_ZeroTotalIsNaN ==
    pc = "filed" /\ result = "Ok" =>
        /\ task.information.total_memory = 0 => LastRecord.memory.percent.s = "NaN"
        /\ task.information.total_swap = 0 => LastRecord.swap.percent.s = "NaN"

\* C5 amended: with a zero total the percentage is never a finite number: it is
\* not-a-number when the used counter is 0 too and positive infinity when the
\* used counter is above 0; file() still returns, and when its write succeeds
\* the log ends with a complete record whose memory and swap fields hold that
\* percentage next to the used and total figures.
C5_ZeroTotalIsNaNOrInf ==
    pc = "filed" =>
        /\ result \in {"Ok", "Err"}
        /\ result = "Ok" =>
              /\ disk_file # <<>>
              /\ ~disk_file[Len(disk_file)].torn
              /\ DOMAIN LastRecord.memory = {"used", "total", "percent"}
              /\ DOMAIN LastRecord.swap = {"used", "total", "percent"}
              /\ task.information.total_memory = 0 =>
                    LastRecord.memory.percent.s
                      = IF task.information.used_memory = 0 THEN "NaN" ELSE "inf"
              /\ task.information.total_swap = 0 =>
                    LastRecord.swap.percent.s
                      = IF task.information.used_swap = 0 THEN "NaN" ELSE "inf"

\* A record written for used_memory > 0 = total_memory and used_swap = 0 =
\* total_swap: one percentage of each kind.
C5_Witness ==
    /\ pc = "filed"
    /\ result = "Ok"
    /\ task.information.total_memory = 0
    /\ task.information.used_memory > 0
    /\ task.information.total_swap = 0
    /\ task.information.used_swap = 0
    /\ LastRecord.memory.percent.s = "inf"
    /\ LastRecord.swap.percent.s = "NaN"

\* A step in which update() handled a message without sampling the provider.
NotSampled == nsamples' = nsamples

\* C6: a toggle taken from a Loaded state is undone by a second toggle: the
\* second application gives back the show_cpu_usage and the snapshot the first
\* one started from.
C6_ToggleInvolution ==
    [][NotSampled /\ task.tag = "Loaded" /\ task' # task =>
          /\ task'.tag = "Loaded"
          /\ UpdateCpuUsage(task') = task
          /\ UpdateCpuUsage(task').show_cpu_usage = task.show_cpu_usage
          /\ UpdateCpuUsage(task').information = task.information]_vars

\* The CPU rows are on: a toggle has acted on a Loaded state.
C6_Witness ==
    /\ pc = "run"
    /\ task.tag = "Loaded"
    /\ task.show_cpu_usage
    /\ last_message = "CpuUsage"

\* C7: a step that handles Message::CpuUsage in a Loaded state flips
\* show_cpu_usage and changes nothing else: the snapshot, the provider sample
\* and count, the log, the printed lines and the process stay as they were.
C7_ToggleFrame ==
    [][NotSampled /\ task.tag = "Loaded" =>
          /\ task'.tag = "Loaded"
          /\ task'.information = task.information
          /\ last_message' = "CpuUsage" /\ frame' = frame =>
                task'.show_cpu_usage = ~task.show_cpu_usage
          /\ sys' = sys
          /\ disk_file' = disk_file
          /\ stdout' = stdout
          /\ ok_writes' = ok_writes
          /\ pc' = pc]_vars

\* The CPU rows were switched on after one Refresh that logged its record; the
\* snapshot still has its per-core samples and the log still has one record.
C7_Witness ==
    /\ task.tag = "Loaded"
    /\ task.show_cpu_usage
    /\ Len(task.information.cpu_usages) = 2
    /\ nsamples = 1
    /\ Len(disk_file) = 1
    /\ ok_writes = 1

\* C8: Message::CpuUsage handled in the Loading state leaves it Loading: no
\* Loaded state appears, the provider is not sampled, the log is not written.
C8_ToggleOnLoading ==
    [][NotSampled /\ task.tag = "Loading" =>
          /\ task' = Loading
          /\ sys' = sys
          /\ disk_file' = disk_file
          /\ stdout' = stdout
          /\ ok_writes' = ok_writes]_vars

\* update(Message::CpuUsage) has run on a Task that is still Loading.
C8_Witness ==
    /\ task = Loading
    /\ last_message = "CpuUsage"
    /\ nsamples = 0
    /\ disk_file = <<>>

\* C9: whenever the runtime can deliver a message or render, the state is
\* Loaded (new() has refreshed first); and a Loaded state never goes back to
\* Loading, whatever the Refreshes and their log writes do.
C9_LoadedBeforeDispatch ==
    /\ [](pc = "run" => task.tag = "Loaded")
    /\ [](frame # <<>> => frame[1].content # "Loading...")
    /\ [][task.tag = "Loaded" => task'.tag = "Loaded"]_vars

\* The program rendered a Loaded state after a second Refresh whose log write
\* failed.
C9_Witness ==
    /\ pc = "run"
    /\ task.tag = "Loaded"
    /\ frame # <<>>
    /\ nsamples = 2
    /\ stdout >= 1
    /\ last_message = "Refresh"

\* C10: while the program runs, the snapshot in the state is the one built from
\* the latest provider output: its disks and networks are the entries of that
\* output, one for one and in its order, and nothing of an earlier snapshot.
C10_SnapshotFromLatestSample ==
    pc = "run" /\ nsamples > 0 =>
        /\ task.tag = "Loaded"
        /\ FromProvider(task.information, sys[1])

\* After two Refreshes the first of which logged two disks: the state holds the
\* single disk and interface the second sample reported.
C10_Witness ==
    /\ pc = "run"
    /\ nsamples = 2
    /\ Len(disk_file) >= 1
    /\ Len(disk_file[1].text.disk_usage) = 2
    /\ Len(sys[1].disks) = 1
    /\ Len(task.information.disks) = 1
    /\ Len(task.information.networks) = 1

====
